---- MODULE Spec2Model ----
(***************************************************************************)
(* Model of the Database Viewer terminal UI: the windowed table renderer   *)
(* (dbv/tui.py TableView), the command registries and keyboard dispatch    *)
(* (dbv/tui.py Interface) and the session entry point with its event loop  *)
(* (dbv/cli.py).                                                           *)
(***************************************************************************)
EXTENDS Integers, Sequences, FiniteSets, TLC

VARIABLES
    readable,        \* the file named on the command line can be read by load_df
    df,              \* the dataset: [rows |-> row count, colw |-> width of each column]
    table,           \* TableView fields: _startat, _column_startat, _last_page_size, filter
    mode,            \* Interface.mode
    commands,        \* Interface.commands: key -> command function (global registry)
    table_commands,  \* Interface.table_commands: key -> command function (table registry)
    registration,    \* what the last add_command call did
    pc,              \* position of the session in cli.main / consume_keyboard_events
    term,            \* terminal attributes of stdin: "cooked" (as found) or "cbreak"
    ch,              \* the character last read from stdin
    handled,         \* what the last keyboard_handler call did
    out,             \* what the last render produced
    console,         \* the size of the terminal: [h |-> height, w |-> max_width]
    lastop,          \* the last thing done: "none", "key", "resize", "render", or
                     \* "rerender" for a render that follows a render directly
    twin             \* a second TableView, over the same columns and no rows, that
                     \* is given the same keys and renders: [table, out]

vars == <<readable, df, table, mode, commands, table_commands, registration,
          pc, term, ch, handled, out, console, lastop, twin>>

----------------------------------------------------------------------------
(* Bounds of the model.                                                    *)

MaxRows == 2
MaxCols == 4
MaxColWidth == 2
MinHeight == 6
MaxHeight == 8
MaxViewCols == 2
MaxExtra == 1

(* Program constants.                                                      *)

ReservedRows == 7
ReservedWidth == 2
IndexWidth == 1

Min(a, b) == IF a < b THEN a ELSE b
Max(a, b) == IF a > b THEN a ELSE b

Mode == {"LOADING", "SUMMARY", "TABLE", "HELP"}

Heights == MinHeight .. MaxHeight
(* Console widths that leave room for no column at all, or for the index   *)
(* column and some of the data columns.                                    *)
ViewWidths == {1 + k * (MaxColWidth + 1) : k \in 0 .. MaxViewCols}
ConsoleSizes == [h : Heights, w : ViewWidths]

(* Datasets of up to MaxRows rows and MaxCols columns, the columns of one  *)
(* dataset equally wide.                                                   *)
ColWidthSeqs == {[i \in 1 .. n |-> cw] : n \in 0 .. MaxCols, cw \in 1 .. MaxColWidth}
Datasets == [rows : 0 .. MaxRows, colw : ColWidthSeqs]

RowCount(d) == d.rows
ColumnCount(d) == Len(d.colw)

----------------------------------------------------------------------------
(* TableView                                                               *)

(* self.filter = None; a filter that is set names the rows it accepts.     *)
NoFilter == [present |-> FALSE, accept |-> {}]

TableViewInit == [startat |-> 0, column_startat |-> 0, last_page_size |-> 0,
                  filter |-> NoFilter]

startat_setter(d, t, v) ==
    [t EXCEPT !.startat = Min(RowCount(d) - 1, Max(0, v))]

column_startat_setter(d, t, v) ==
    [t EXCEPT !.column_startat = Min(ColumnCount(d) - 1, Max(0, v))]

increment_page(d, t) == startat_setter(d, t, t.startat + t.last_page_size)

decrement_page(d, t) == startat_setter(d, t, t.startat - t.last_page_size)

(* Python slicing seq[a:] and seq[:k], with negative indices counted from  *)
(* the end as Python does.                                                 *)
PySliceFrom(s, a) ==
    LET start == IF a < 0 THEN Max(Len(s) + a, 0) ELSE Min(a, Len(s))
    IN  SubSeq(s, start + 1, Len(s))

PySliceTo(s, k) ==
    LET stop == IF k < 0 THEN Max(Len(s) + k, 0) ELSE Min(k, Len(s))
    IN  SubSeq(s, 1, stop)

(* itertools.islice(iterable, start, stop): a negative argument raises     *)
(* ValueError; otherwise the items at positions start <= i < stop.         *)
IsliceRaises(start, stop) == start < 0 \/ stop < 0

Islice(s, start, stop) ==
    SubSeq(s, start + 1, Min(stop, Len(s)))

(* Rows are named by their position 0 .. rows-1 in the dataset, data       *)
(* columns by 1 .. columns; 0 names the leading " " index column.          *)
AllRows(d) == [i \in 1 .. RowCount(d) |-> i - 1]
AllColumns(d) == [i \in 1 .. ColumnCount(d) |-> i]

(* Mutant of ApplyFilter: the predicate is not applied.                    *)
ApplyFilter_Ignored(d, t) == AllRows(d)

(* df if not self.filter else df[self.filter] *)
ApplyFilter(d, t) ==
    IF ~t.filter.present THEN AllRows(d)
    ELSE SelectSeq(AllRows(d), LAMBDA r : r \in t.filter.accept)

(* Table._measure_column(...).maximum of a candidate column: the widest of *)
(* its header and its cells.                                               *)
MeasureColumn(d, name) == IF name = 0 THEN IndexWidth ELSE d.colw[name]

(* np.add.accumulate(max_column_widths)[i-1], widths taken +1 each *)
RECURSIVE TotalWidth(_, _, _)
TotalWidth(d, cols, i) ==
    IF i = 0 THEN 0
    ELSE TotalWidth(d, cols, i - 1) + MeasureColumn(d, cols[i]) + 1

SetMin(S) == CHOOSE x \in S : \A y \in S : x <= y

(* The cut point applied to column_names and to every row when some        *)
(* column does not fit.                                                    *)
MaxColumn(first_cant_render, column_startat) ==
    Max(first_cant_render, column_startat + 1)

(* Mutant of WindowStop: the window is cut with the page size of the       *)
(* previous render.                                                        *)
WindowStop_StalePage(t, height) == t.startat + t.last_page_size

(* The end of the row window: islice(..., self.startat, self.startat +     *)
(* height), for the view t as the render found it.                         *)
WindowStop(t, height) == t.startat + height

RaisedOutput == [raised |-> TRUE, names |-> <<>>, rows |-> <<>>, footer |-> 0]

(* TableView.__rich_console__ at console height h and max_width w: the     *)
(* table view after the render and what the render yields.                 *)
RenderTable(d, t, h, w) ==
    LET height == h - ReservedRows
        width == w - ReservedWidth
        t1 == [t EXCEPT !.last_page_size = height]
        filtered_rows == ApplyFilter(d, t1)
        filtered_columns == PySliceFrom(AllColumns(d), t1.column_startat)
        start == t1.startat
        stop == WindowStop(t, height)
        paged == Islice(filtered_rows, start, stop)
        column_names == <<0>> \o filtered_columns
        \* zip(column_names, zip(*paged)) is empty when no row is in the window
        columns == IF paged = <<>> THEN <<>> ELSE column_names
        cant_render == {i \in 1 .. Len(columns) :
                            TotalWidth(d, columns, i) > width}
        kept == IF cant_render = {} THEN column_names
                ELSE PySliceTo(column_names,
                               MaxColumn(SetMin(cant_render) - 1, t1.column_startat))
    IN  IF IsliceRaises(start, stop)
        THEN [table |-> t1, out |-> RaisedOutput]
        ELSE [table |-> t1,
              out |-> [raised |-> FALSE, names |-> kept, rows |-> paged,
                       footer |-> Len(filtered_rows)]]

----------------------------------------------------------------------------
(* Command registries and the Interface                                    *)

(* The registries as the class body of Interface fills them.               *)
ClassCommands ==
    ("s" :> "summary_mode") @@ ("t" :> "table_mode") @@ ("L" :> "load_command")
    @@ ("q" :> "quit") @@ ("?" :> "show_help")

ClassTableCommands ==
    ("h" :> "scroll_left") @@ ("j" :> "scroll_down") @@ ("k" :> "scroll_up")
    @@ ("l" :> "scroll_right") @@ ("g" :> "go_to_top") @@ ("G" :> "go_to_bottom")

(* add_command(command_dict, key, ...)(fn): KeyError when the key is       *)
(* already in the registry, else the registry with the command added.      *)
(* Mutant of add_command: a key already present is overwritten silently,   *)
(* as a plain dict assignment does.                                        *)
add_command_Overwrites(command_dict, key, fn) ==
    [raised |-> FALSE,
     dict |-> (key :> fn) @@ [k \in DOMAIN command_dict \ {key} |-> command_dict[k]]]

add_command(command_dict, key, fn) ==
    IF key \in DOMAIN command_dict
    THEN [raised |-> TRUE, dict |-> command_dict]
    ELSE [raised |-> FALSE, dict |-> (key :> fn) @@ command_dict]

NoRegistration == [dict |-> "none", key |-> "", raised |-> FALSE]

(* The mode -> view mapping built by Interface.__init__.                   *)
Views ==
    ("LOADING" :> "loading") @@ ("SUMMARY" :> "summary") @@ ("TABLE" :> "table")
    @@ ("HELP" :> "help")

(* Command functions: from the interface state s = [mode, table] to the    *)
(* state they leave, whether they call refresh() and what they return.     *)
Effect(m, t, refresh, ret) ==
    [mode |-> m, table |-> t, refresh |-> refresh, ret |-> ret]

(* Mutant of summary_mode: leaving the table rewinds it to its first row.  *)
summary_mode_ResetsScroll(d, s) ==
    Effect("SUMMARY", [s.table EXCEPT !.startat = 0], TRUE, TRUE)

summary_mode(d, s) == Effect("SUMMARY", s.table, TRUE, TRUE)

(* Mutant of table_mode: the switch is guarded, Table is entered only once *)
(* loading is over.                                                        *)
table_mode_Guarded(d, s) ==
    Effect(IF s.mode = "LOADING" THEN s.mode ELSE "TABLE", s.table, TRUE, TRUE)

table_mode(d, s) == Effect("TABLE", s.table, TRUE, TRUE)

load_command(d, s) == Effect("LOADING", s.table, TRUE, TRUE)

show_help(d, s) == Effect("HELP", s.table, TRUE, TRUE)

(* Mutant of quit: refreshes and asks the loop to continue, as the other   *)
(* commands do.                                                            *)
quit_Continues(d, s) == Effect(s.mode, s.table, TRUE, TRUE)

quit(d, s) == Effect(s.mode, s.table, FALSE, FALSE)

scroll_left(d, s) ==
    Effect(s.mode, column_startat_setter(d, s.table, s.table.column_startat - 1),
           TRUE, TRUE)

scroll_right(d, s) ==
    Effect(s.mode, column_startat_setter(d, s.table, s.table.column_startat + 1),
           TRUE, TRUE)

(* Mutant of scroll_down: moves the page without asking for a refresh.     *)
scroll_down_NoRefresh(d, s) ==
    Effect(s.mode, increment_page(d, s.table), FALSE, TRUE)

scroll_down(d, s) == Effect(s.mode, increment_page(d, s.table), TRUE, TRUE)

scroll_up(d, s) == Effect(s.mode, decrement_page(d, s.table), TRUE, TRUE)

go_to_top(d, s) == Effect(s.mode, startat_setter(d, s.table, 0), TRUE, TRUE)

(* Mutant of go_to_bottom: takes the last row index, len(df) - 1, as the    *)
(* base from which the page is subtracted.                                 *)
go_to_bottom_OffByOne(d, s) ==
    Effect(s.mode,
           startat_setter(d, s.table, RowCount(d) - 1 - s.table.last_page_size),
           TRUE, TRUE)

go_to_bottom(d, s) ==
    Effect(s.mode,
           startat_setter(d, s.table, RowCount(d) - s.table.last_page_size),
           TRUE, TRUE)

CommandFns == {"summary_mode", "table_mode", "load_command", "show_help", "quit",
               "scroll_left", "scroll_right", "scroll_down", "scroll_up",
               "go_to_top", "go_to_bottom"}

(* Command.fn(self, refresh) *)
CallFn(fn, d, s) ==
    CASE fn = "summary_mode" -> summary_mode(d, s)
      [] fn = "table_mode"   -> table_mode(d, s)
      [] fn = "load_command" -> load_command(d, s)
      [] fn = "show_help"    -> show_help(d, s)
      [] fn = "quit"         -> quit(d, s)
      [] fn = "scroll_left"  -> scroll_left(d, s)
      [] fn = "scroll_right" -> scroll_right(d, s)
      [] fn = "scroll_down"  -> scroll_down(d, s)
      [] fn = "scroll_up"    -> scroll_up(d, s)
      [] fn = "go_to_top"    -> go_to_top(d, s)
      [] fn = "go_to_bottom" -> go_to_bottom(d, s)

(* Mutant of the lookup: the table registry answers in every mode, as the  *)
(* FIXME above scroll_left fears.                                          *)
Lookup_AnyMode(cmds, tcmds, m, c) ==
    IF c \in DOMAIN tcmds
    THEN [reg |-> "table", fn |-> tcmds[c]]
    ELSE IF c \in DOMAIN cmds
         THEN [reg |-> "global", fn |-> cmds[c]]
         ELSE [reg |-> "none", fn |-> "none"]

(* Mutant of Lookup: the global registry is asked first.                   *)
Lookup_GlobalFirst(cmds, tcmds, m, c) ==
    IF c \in DOMAIN cmds
    THEN [reg |-> "global", fn |-> cmds[c]]
    ELSE IF m = "TABLE" /\ c \in DOMAIN tcmds
         THEN [reg |-> "table", fn |-> tcmds[c]]
         ELSE [reg |-> "none", fn |-> "none"]

(* The registry lookup of keyboard_handler: which registry answers for    *)
(* character c in mode m, and with which command function.                 *)
Lookup(cmds, tcmds, m, c) ==
    IF m = "TABLE" /\ c \in DOMAIN tcmds
    THEN [reg |-> "table", fn |-> tcmds[c]]
    ELSE IF c \in DOMAIN cmds
         THEN [reg |-> "global", fn |-> cmds[c]]
         ELSE [reg |-> "none", fn |-> "none"]

(* The views without scroll state.  The loading view is a fixed string and *)
(* the help view lists the registries; the summary view shows the schema   *)
(* of the dataset as a static two-column table.                            *)
RenderStatic(view) == [view |-> view, raised |-> FALSE]

RenderSummary(d) == [view |-> "summary", raised |-> FALSE]

(* Interface.__rich__ rendered at console height h and max_width w: the    *)
(* view of the active mode; only the table view has state to render from.  *)
RenderInterface(d, s, h, w) ==
    CASE Views[s.mode] = "table" ->
            LET r == RenderTable(d, s.table, h, w)
            IN  [table |-> r.table,
                 out |-> [view |-> "table", raised |-> r.out.raised,
                          names |-> r.out.names, rows |-> r.out.rows,
                          footer |-> r.out.footer]]
      [] Views[s.mode] = "summary" ->
            [table |-> s.table, out |-> RenderSummary(d)]
      [] OTHER ->
            [table |-> s.table, out |-> RenderStatic(Views[s.mode])]

(* The refresh signal handed to the handler: an immediate re-render of the *)
(* interface at the console's height h and max_width w.                    *)
Refresh(d, s, h, w) == RenderInterface(d, s, h, w)

(* Mutant of keyboard_handler: a key found in no registry still asks for   *)
(* a refresh before the handler returns.                                   *)
KeyboardHandler_AlwaysRefresh(cmds, tcmds, d, s, c, h, w) ==
    LET cmd == Lookup(cmds, tcmds, s.mode, c)
        e == IF cmd.reg = "none" THEN Effect(s.mode, s.table, TRUE, TRUE)
             ELSE CallFn(cmd.fn, d, s)
        r == Refresh(d, [mode |-> e.mode, table |-> e.table], h, w)
    IN  [mode |-> e.mode,
         table |-> IF e.refresh THEN r.table ELSE e.table,
         refreshed |-> e.refresh,
         out |-> r.out,
         raised |-> e.refresh /\ r.out.raised,
         ret |-> e.ret,
         reg |-> cmd.reg,
         fn |-> cmd.fn]

(* Interface.keyboard_handler(ch, refresh) *)
KeyboardHandler(cmds, tcmds, d, s, c, h, w) ==
    LET cmd == Lookup(cmds, tcmds, s.mode, c)
        e == IF cmd.reg = "none" THEN Effect(s.mode, s.table, FALSE, TRUE)
             ELSE CallFn(cmd.fn, d, s)
        r == Refresh(d, [mode |-> e.mode, table |-> e.table], h, w)
    IN  [mode |-> e.mode,
         table |-> IF e.refresh THEN r.table ELSE e.table,
         refreshed |-> e.refresh,
         out |-> r.out,
         \* an error raised by the render leaves the handler without a value
         raised |-> e.refresh /\ r.out.raised,
         ret |-> e.ret,
         reg |-> cmd.reg,
         fn |-> cmd.fn]

----------------------------------------------------------------------------
(* State                                                                   *)

(* Characters the terminal can deliver: the registered keys, a key no      *)
(* registry holds, and Ctrl-D (EOT).  "" is the empty read at end of input.*)
EOT == "EOT"
Keys == DOMAIN ClassCommands \cup DOMAIN ClassTableCommands \cup {"x"}
Chars == Keys \cup {EOT}

NoOutput == [view |-> "none", raised |-> FALSE]
NoHandled == [reg |-> "none", fn |-> "none", refreshes |-> 0, ret |-> TRUE,
              raised |-> FALSE]

NoTwin == [table |-> TableViewInit, out |-> NoOutput]

IState == [mode |-> mode, table |-> table]

(* Interface.__init__ and TableView.__init__ *)
InterfaceInit ==
    /\ table = TableViewInit
    /\ mode = "TABLE"
    /\ out = NoOutput
    /\ lastop = "none"

(* One call of the keyboard handler on character c; its refresh signal     *)
(* renders the interface at the current size of the console.               *)
Handled(c) ==
    KeyboardHandler(commands, table_commands, df, IState, c, console.h,
                    console.w)

CallHandler(c) ==
    LET r == Handled(c)
    IN  /\ mode' = r.mode
        /\ table' = r.table
        /\ IF r.refreshed
           THEN out' = r.out /\ lastop' = "render"
           ELSE out' = out /\ lastop' = "key"

(* What the event loop sees of that call. *)
Outcome(c) ==
    LET r == Handled(c)
    IN  [reg |-> r.reg, fn |-> r.fn, refreshes |-> IF r.refreshed THEN 1 ELSE 0,
         ret |-> r.ret, raised |-> r.raised]

----------------------------------------------------------------------------
(* The interface as an object: keys handed to keyboard_handler and renders *)
(* of the interface, in any order, on a console whose size may change.     *)

InitView ==
    /\ readable = TRUE
    /\ df \in Datasets
    /\ commands = ClassCommands
    /\ table_commands = ClassTableCommands
    /\ registration = NoRegistration
    /\ InterfaceInit
    /\ handled = NoHandled
    /\ console \in ConsoleSizes
    /\ pc = "view"
    /\ term = "cooked"
    /\ ch = ""
    /\ twin = NoTwin

Key ==
    /\ pc = "view"
    /\ \E c \in Keys : CallHandler(c)
    /\ UNCHANGED <<readable, df, commands, table_commands, registration, pc, term, ch, handled,
                   console, twin>>

Render ==
    /\ pc = "view"
    /\ LET r == RenderInterface(df, IState, console.h, console.w)
       IN  table' = r.table /\ out' = r.out
    /\ lastop' = IF lastop \in {"render", "rerender"} THEN "rerender" ELSE "render"
    /\ UNCHANGED <<readable, df, mode, commands, table_commands, registration, pc, term, ch,
                   handled, console, twin>>

Resize ==
    /\ pc = "view"
    /\ \E c \in ConsoleSizes : c # console /\ console' = c
    /\ lastop' = "resize"
    /\ UNCHANGED <<readable, df, table, mode, commands, table_commands, registration, pc, term,
                   ch, handled, out, twin>>

NextView == Key \/ Render \/ Resize

SpecView == InitView /\ [][NextView]_vars

----------------------------------------------------------------------------
(* A table view with a row predicate, next to its twin over no rows.  The  *)
(* predicate is given to the view after construction, before the view is   *)
(* used; the console keeps the size it has.                                *)

(* the dataset d without its rows *)
EmptyOf(d) == [d EXCEPT !.rows = 0]

(* the row predicates over dataset d, each as the set of rows it accepts   *)
Filters(d) == [present : {TRUE}, accept : SUBSET (0 .. RowCount(d) - 1)]

(* table.filter = <predicate> *)
SetFilter ==
    /\ pc = "view"
    /\ lastop = "none"
    /\ \E f \in Filters(df) : table' = [table EXCEPT !.filter = f]
    /\ lastop' = "filter"
    /\ UNCHANGED <<readable, df, mode, commands, table_commands, registration, pc, term, ch,
                   handled, out, console, twin>>

(* the keys given to the two views: the table commands, and s and t to     *)
(* leave the table and come back to it                                     *)
FilterKeys == DOMAIN ClassTableCommands \cup {"s", "t"}

(* what the twin does on character c in the mode the interface is in       *)
TwinHandled(c) ==
    LET r == KeyboardHandler(commands, table_commands, EmptyOf(df),
                             [mode |-> mode, table |-> twin.table], c,
                             console.h, console.w)
    IN  [table |-> r.table, out |-> IF r.refreshed THEN r.out ELSE twin.out]

KeyBoth ==
    /\ pc = "view"
    /\ \E c \in FilterKeys : CallHandler(c) /\ twin' = TwinHandled(c)
    /\ UNCHANGED <<readable, df, commands, table_commands, registration, pc, term, ch, handled,
                   console>>

RenderBoth ==
    /\ pc = "view"
    /\ LET r == RenderInterface(df, IState, console.h, console.w)
           e == RenderInterface(EmptyOf(df), [mode |-> mode, table |-> twin.table],
                                console.h, console.w)
       IN  /\ table' = r.table /\ out' = r.out
           /\ twin' = [table |-> e.table, out |-> e.out]
    /\ lastop' = IF lastop \in {"render", "rerender"} THEN "rerender" ELSE "render"
    /\ UNCHANGED <<readable, df, mode, commands, table_commands, registration, pc, term, ch,
                   handled, console>>

NextFilter == SetFilter \/ KeyBoth \/ RenderBoth

SpecFilter == InitView /\ [][NextFilter]_vars

----------------------------------------------------------------------------
(* The session: cli.main and consume_keyboard_events                       *)

Init ==
    /\ readable \in BOOLEAN
    /\ df \in Datasets
    /\ commands = ClassCommands
    /\ table_commands = ClassTableCommands
    /\ registration = NoRegistration
    /\ InterfaceInit
    /\ handled = NoHandled
    /\ console \in ConsoleSizes
    /\ pc = "start"
    /\ term = "cooked"
    /\ ch = ""
    /\ twin = NoTwin

(* tty.setcbreak(sys.stdin.fileno()), then the Live display is entered *)
SetCbreak ==
    /\ pc = "start"
    /\ term' = "cbreak"
    /\ pc' = "load"
    /\ UNCHANGED <<readable, df, table, mode, commands, table_commands, registration, ch,
                   handled, out, console, lastop, twin>>

(* df = load_df(filename): raises when the file cannot be read *)
LoadDf ==
    /\ pc = "load"
    /\ pc' = IF readable THEN "read" ELSE "failed"
    /\ UNCHANGED <<readable, df, table, mode, commands, table_commands, registration, term,
                   ch, handled, out, console, lastop, twin>>

(* while ch := sys.stdin.read(1): the next iteration starts, no handler    *)
(* call of it has happened yet                                             *)
ReadChar ==
    /\ pc = "read"
    /\ \E c \in Chars \cup {""} :
          /\ ch' = c
          /\ pc' = IF c = "" THEN "exit" ELSE "handle"
    /\ handled' = NoHandled
    /\ UNCHANGED <<readable, df, table, mode, commands, table_commands, registration, term,
                   out, console, lastop, twin>>

(* Mutant of Handle: the handler call is scheduled but not awaited; the    *)
(* loop goes back to reading before the call has run.                      *)
Handle_NotAwaited ==
    /\ pc = "handle"
    /\ pc' = "read"
    /\ UNCHANGED <<readable, df, table, mode, commands, table_commands, registration, term,
                   ch, handled, out, console, lastop, twin>>

(* should_continue = await keyboard_handler(ch); break unless it is true *)
Handle ==
    /\ pc = "handle"
    /\ CallHandler(ch)
    /\ handled' = Outcome(ch)
    /\ pc' = IF handled'.raised THEN "failed"
             ELSE IF handled'.ret THEN "read" ELSE "exit"
    /\ UNCHANGED <<readable, df, commands, table_commands, registration, term, ch, console, twin>>

(* the loop is over: run_until_complete returns, the Live display is left  *)
(* and main returns                                                        *)
Return ==
    /\ pc = "exit"
    /\ pc' = "done"
    /\ UNCHANGED <<readable, df, table, mode, commands, table_commands, registration, term,
                   ch, handled, out, console, lastop, twin>>

Next == SetCbreak \/ LoadDf \/ ReadChar \/ Handle \/ Return

Spec == Init /\ [][Next]_vars

----------------------------------------------------------------------------
(* The class body of Interface with further commands registered through    *)
(* add_command before the session starts.                                  *)

ExtraKeys == {"t", "j"}
ExtraFns == {"go_to_top", "quit"}

Registered == Cardinality(DOMAIN commands) + Cardinality(DOMAIN table_commands)
ClassRegistered ==
    Cardinality(DOMAIN ClassCommands) + Cardinality(DOMAIN ClassTableCommands)

InitReg ==
    /\ readable = TRUE
    /\ df \in {d \in Datasets : RowCount(d) = MaxRows /\ ColumnCount(d) = MaxCols}
    /\ commands = ClassCommands
    /\ table_commands = ClassTableCommands
    /\ registration = NoRegistration
    /\ InterfaceInit
    /\ handled = NoHandled
    /\ console \in ConsoleSizes
    /\ pc = "class"
    /\ term = "cooked"
    /\ ch = ""
    /\ twin = NoTwin

(* @add_command(registry, key, ...) on one more method of the class: the   *)
(* KeyError of a duplicate key ends the class body, and with it the program*)
AddCommand ==
    /\ pc = "class"
    /\ Registered < ClassRegistered + MaxExtra
    /\ \E dict \in {"commands", "table_commands"}, key \in ExtraKeys,
          fn \in ExtraFns :
          LET r == add_command(IF dict = "commands" THEN commands
                               ELSE table_commands, key, fn)
          IN  /\ registration' = [dict |-> dict, key |-> key, raised |-> r.raised]
              /\ commands' = IF dict = "commands" THEN r.dict ELSE commands
              /\ table_commands' = IF dict = "table_commands" THEN r.dict
                                   ELSE table_commands
              /\ pc' = IF r.raised THEN "failed" ELSE "class"
    /\ UNCHANGED <<readable, df, table, mode, term, ch, handled, out, console,
                   lastop, twin>>

(* the class body is complete; main is called *)
ClassDone ==
    /\ pc = "class"
    /\ pc' = "start"
    /\ UNCHANGED <<readable, df, table, mode, commands, table_commands,
                   registration, term, ch, handled, out, console, lastop, twin>>

NextReg == AddCommand \/ ClassDone \/ Next

SpecReg == InitReg /\ [][NextReg]_vars

----------------------------------------------------------------------------
(* Properties                                                              *)

(* out is the render of the current state at the current console size *)
Fresh == lastop \in {"render", "rerender"}

(* C1: after every command and render the row offset is within            *)
(* [0, rowCount-1] when the dataset has rows, and is 0 when it has none.   *)
C1_RowOffsetClamped ==
    IF RowCount(df) >= 1
    THEN table.startat \in 0 .. RowCount(df) - 1
    ELSE table.startat = 0

(* C2: after every scroll-left / scroll-right the column offset is within *)
(* [0, columnCount-1] when the dataset has columns, and is 0 when it has   *)
(* none.                                                                   *)
C2_ColumnOffsetClamped ==
    IF ColumnCount(df) >= 1
    THEN table.column_startat \in 0 .. ColumnCount(df) - 1
    ELSE table.column_startat = 0

(* C3: among the columns a render keeps, the only one whose running width *)
(* (width plus separator, summed from the left) may exceed the viewport    *)
(* width is the first data column at the column offset.                    *)
C3_ColumnFit ==
    (Fresh /\ out.view = "table" /\ ~out.raised) =>
        \A i \in 1 .. Len(out.names) :
            TotalWidth(df, out.names, i) > console.w =>
                out.names[i] = table.column_startat + 1

(* C4: at every viewport height h a render completes and shows            *)
(* min(rowCount, max(0, h - 7)) rows.                                      *)
C4_RowWindowSize ==
    (Fresh /\ out.view = "table") =>
        /\ ~out.raised
        /\ Len(out.rows) = Min(RowCount(df), Max(0, console.h - ReservedRows))

InBoth(c) == c \in DOMAIN commands /\ c \in DOMAIN table_commands

(* C5: a key held by both registries is answered by the table registry    *)
(* while the mode is TABLE and by the global registry in every other mode: *)
(* the handler call does what that registry's command does.                *)
C5_DispatchPriority ==
    [][(pc = "handle" /\ InBoth(ch)) =>
         LET reg == IF mode = "TABLE" THEN "table" ELSE "global"
             fn == IF mode = "TABLE" THEN table_commands[ch] ELSE commands[ch]
             e == CallFn(fn, df, IState)
         IN  /\ handled'.reg = reg
             /\ handled'.fn = fn
             /\ handled'.ret = e.ret
             /\ handled'.refreshes = (IF e.refresh THEN 1 ELSE 0)
             /\ mode' = e.mode
             /\ table'.startat = e.table.startat
             /\ table'.column_startat = e.table.column_startat]_vars

C5_Witness ==
    /\ pc \in {"read", "exit"}
    /\ InBoth(ch)
    /\ handled.reg = "table"
    /\ handled.fn = table_commands[ch]
    /\ handled.fn # commands[ch]

(* C6: in every mode the handler answers q with false and without calling *)
(* refresh, and the loop then ends: no character is read, no handler       *)
(* called and nothing rendered after it.                                   *)
C6_QuitStopsLoop ==
    [][/\ (pc = "handle" /\ ch = "q") =>
             /\ handled'.ret = FALSE
             /\ handled'.refreshes = 0
             /\ ~handled'.raised
             /\ pc' = "exit"
             /\ UNCHANGED <<ch, out, mode, table>>
       /\ (pc = "exit" /\ ch = "q") =>
             /\ pc' = "done"
             /\ UNCHANGED <<ch, handled, out, lastop, mode, table>>
       /\ (pc = "done" /\ ch = "q") => UNCHANGED vars]_vars

C6_Witness ==
    /\ pc = "done"
    /\ ch = "q"
    /\ handled.fn = "quit"
    /\ ~handled.ret
    /\ mode = "HELP"
    /\ out.view = "help"

Terminated == pc \in {"done", "failed"}
InLoop == pc \in {"read", "handle", "exit"}

(* C7: the terminal is in cbreak mode while the event loop runs, and every *)
(* terminated session has restored the attributes it found.                *)
C7_TerminalRestored ==
    /\ InLoop => term = "cbreak"
    /\ Terminated => term = "cooked"

(* C8: with an unreadable dataset path the event loop is never entered and *)
(* the terminal mode is never altered.                                     *)
C8_StartupFailsClean ==
    ~readable => (~InLoop /\ pc # "done" /\ term = "cooked")

(* C9: an empty read and Ctrl-D both end the loop at once: the handler is  *)
(* not called for that input and the session ends without an error.        *)
C9_EndOfInputStops ==
    [][(pc = "read" /\ ch' \in {"", EOT}) => pc' = "exit"]_vars

(* C10: a render that directly follows a render at the same console size   *)
(* yields the same output and changes nothing: row offset, column offset,  *)
(* page size, predicate and mode are as the first render left them.        *)
C10_RenderIdempotent ==
    [][(Fresh /\ Render) => (out' = out /\ table' = table /\ mode' = mode)]_vars

C10_Witness ==
    /\ lastop = "rerender"
    /\ out.view = "table"
    /\ ~out.raised
    /\ Len(out.rows) > 0
    /\ Len(out.names) > 1
    /\ table.startat > 0

(* C11: on a dataset without rows the row offset stays 0 under every       *)
(* command, no render raises, and every render of the table shows an empty *)
(* body with a footer of 0 total rows.                                     *)
C11_EmptyDataset ==
    RowCount(df) = 0 =>
        /\ table.startat = 0
        /\ (Fresh /\ out.view = "table") =>
              (~out.raised /\ out.rows = <<>> /\ out.footer = 0)

(* C15: a render with at least one row in its window keeps the data column *)
(* at the column offset, whatever the viewport width.                      *)
C15_FirstColumnKept ==
    (/\ Fresh /\ out.view = "table" /\ ~out.raised
     /\ Len(out.rows) >= 1
     /\ table.column_startat \in 0 .. ColumnCount(df) - 1) =>
        /\ Len(out.names) >= 2
        /\ out.names[2] = table.column_startat + 1

(* C16: before the first render the page size is 0 and j and k leave the   *)
(* row offset as it is, for every dataset size.                            *)
C16_PageBeforeRender ==
    [][(pc = "handle" /\ out = NoOutput /\ mode = "TABLE" /\ ch \in {"j", "k"}) =>
          (table.last_page_size = 0 /\ table'.startat = table.startat)]_vars

(* the rows a, a+1, ..., a+n-1 as a render lists them                      *)
RowRange(a, n) == [i \in 1 .. n |-> a + i - 1]

(* a table render has recorded a page size p with 1 <= p <= rowCount and   *)
(* the handler is about to run on a key in Table mode                      *)
PageRecorded ==
    /\ pc = "handle" /\ mode = "TABLE"
    /\ out.view = "table" /\ ~out.raised
    /\ table.last_page_size \in 1 .. RowCount(df)

C13_UniqueKeys ==
    [][(pc = "class" /\ pc' # "start") =>
          LET r == registration'
              this == IF r.dict = "commands" THEN commands ELSE table_commands
              after == IF r.dict = "commands" THEN commands' ELSE table_commands'
          IN  /\ r.raised <=> r.key \in DOMAIN this
              /\ r.raised =>
                    /\ commands' = commands
                    /\ table_commands' = table_commands
                    /\ pc' = "failed"
              /\ ~r.raised =>
                    /\ DOMAIN after = DOMAIN this \cup {r.key}
                    /\ \A k \in DOMAIN this : after[k] = this[k]
                    /\ (r.dict = "commands") => table_commands' = table_commands
                    /\ (r.dict = "table_commands") => commands' = commands
                    /\ pc' = "class"]_vars

C13_Witness ==
    /\ pc = "failed"
    /\ registration = [dict |-> "commands", key |-> "t", raised |-> TRUE]
    /\ commands = ClassCommands
    /\ "t" \notin DOMAIN table_commands

(* the mode each mode-switch key leads to                                  *)
ModeOfKey ==
    ("s" :> "SUMMARY") @@ ("t" :> "TABLE") @@ ("?" :> "HELP") @@ ("L" :> "LOADING")

(* C14: the mode is always exactly one of the Mode values, each of which   *)
(* has a view, and from every mode the keys s, t, ? (and L) set the mode   *)
(* to Summary, Table, Help (and Loading) without any guard, so that every  *)
(* mode is one key away from every other.                                  *)
C14_ModesUnguarded ==
    /\ [](mode \in Mode /\ DOMAIN Views = Mode)
    /\ [][(pc = "handle" /\ ch \in DOMAIN ModeOfKey) =>
             mode' = ModeOfKey[ch]]_vars
    /\ [][(pc = "handle" /\ mode' # mode) =>
             (ch \in DOMAIN ModeOfKey /\ handled'.refreshes = 1)]_vars

C14_Witness ==
    /\ pc = "read" /\ ch = "L" /\ handled.fn = "load_command"
    /\ mode = "LOADING" /\ out.view = "loading"
    /\ table.startat > 0

(* the handler is about to run a registered command other than quit        *)
RunsRefreshingCommand ==
    \/ ch \in {"s", "t", "L", "?"}
    \/ mode = "TABLE" /\ ch \in {"h", "j", "k", "l", "g", "G"}

(* C18: the display is rendered only inside a handler call, exactly once   *)
(* when the key dispatches a mode switch or a scroll command (and then it  *)
(* shows the state the command left) and not at all for q and for keys     *)
(* that dispatch nothing; between handler calls nothing is rendered.       *)
C18_RefreshOnlyOnCommand ==
    [][/\ (pc = "handle" /\ RunsRefreshingCommand) =>
             /\ handled'.refreshes = 1
             /\ lastop' = "render"
             /\ out' = RenderInterface(df, [mode |-> mode', table |-> table'],
                                       console.h, console.w).out
             /\ pc' \in {"read", "failed"}
       /\ (pc = "handle" /\ ~RunsRefreshingCommand) =>
             /\ handled'.refreshes = 0
             /\ out' = out /\ lastop' = "key"
       /\ pc # "handle" =>
             (handled'.refreshes = 0 /\ out' = out /\ lastop' = lastop)]_vars

C18_Witness ==
    /\ pc = "read" /\ ch = "j" /\ mode = "TABLE"
    /\ handled.fn = "scroll_down" /\ handled.refreshes = 1
    /\ lastop = "render" /\ out.view = "table" /\ ~out.raised
    /\ table.startat > 0 /\ out.rows = <<table.startat>>

(* C19: the loop is serial.  While it waits for a character no mode,       *)
(* offset, page size or output changes; a character is read only at the    *)
(* loop head, which is entered from the start-up or from a handler call    *)
(* that has returned; and a handler call is one step that ends with its    *)
(* whole effect (refresh included) in place before the next read.          *)
C19_SerialLoop ==
    [][/\ pc = "read" =>
             /\ pc' \in {"handle", "exit"}
             /\ UNCHANGED <<mode, table, out, lastop>>
       /\ pc' = "read" => pc \in {"load", "handle"}
       /\ pc = "handle" =>
             /\ pc' # "handle" /\ ch' = ch
             /\ handled' = Outcome(ch)
             /\ mode' = Handled(ch).mode
             /\ table' = Handled(ch).table
             /\ (pc' = "read" => (handled'.ret /\ ~handled'.raised))]_vars

C19_Witness ==
    /\ pc = "handle" /\ ch = "G" /\ mode = "TABLE"
    /\ handled = NoHandled
    /\ lastop = "render" /\ out.view = "table"
    /\ table.startat > 0

(* the predicate of the view accepts none of the rows                      *)
RejectsAll ==
    /\ table.filter.present
    /\ table.filter.accept \cap (0 .. RowCount(df) - 1) = {}

(* C17: a view whose predicate rejects every row does what its twin over   *)
(* no rows does: same row and column offset after every command, same      *)
(* output (body, footer, error) of every render.                           *)
C17_RejectAllAsEmpty ==
    RejectsAll =>
        /\ table.startat = twin.table.startat
        /\ table.column_startat = twin.table.column_startat
        /\ out = twin.out

(* C20: the footer of every render that completes is the number of rows    *)
(* the predicate accepts (of all rows without a predicate), whatever the   *)
(* offsets and the size of the viewport.                                   *)
C20_FooterTotal ==
    (out.view = "table" /\ ~out.raised) =>
        out.footer = IF table.filter.present
                     THEN Cardinality(table.filter.accept \cap (0 .. RowCount(df) - 1))
                     ELSE RowCount(df)

C20_Witness ==
    /\ Fresh /\ out.view = "table" /\ ~out.raised
    /\ table.filter.present
    /\ RowCount(df) = 2 /\ Cardinality(table.filter.accept) = 1
    /\ table.startat = 1 /\ table.column_startat > 0
    /\ out.rows = <<>> /\ out.footer = 1

(* C21: after every render of the table the recorded last page size is the *)
(* number of rows that render consumed; it is never negative and never     *)
(* larger than the number of rows rendered.                                *)
C21_PageSizeIsRowsConsumed ==
    (Fresh /\ out.view = "table") =>
        /\ table.last_page_size >= 0
        /\ ~out.raised => table.last_page_size = Len(out.rows)

(* the character about to be handled is a key of neither the global        *)
(* registry nor, in Table mode, the table registry                         *)
Unregistered ==
    /\ ch \notin DOMAIN commands
    /\ ~(mode = "TABLE" /\ ch \in DOMAIN table_commands)

(* C22: a key that no registry of the active mode holds is a no-op: the    *)
(* handler returns true, does not refresh, raises nothing and leaves the   *)
(* mode, both offsets, the page size and the display as they were.         *)
C22_UnregisteredNoOp ==
    [][(pc = "handle" /\ Unregistered) =>
          /\ handled'.ret /\ ~handled'.raised /\ handled'.refreshes = 0
          /\ handled'.reg = "none"
          /\ pc' = "read"
          /\ UNCHANGED <<mode, table, out>>]_vars

C22_Witness ==
    /\ pc = "read" /\ ch = "x" /\ mode = "TABLE"
    /\ handled.reg = "none" /\ handled.ret /\ handled.refreshes = 0
    /\ lastop = "key" /\ out.view = "table"
    /\ table.startat > 0 /\ table.column_startat > 0

(* the keys of the table registry                                          *)
TableKeys == {"h", "j", "k", "l", "g", "G"}

ScrollFrame ==
    /\ (pc = "handle" /\ ch \in {"h", "l"}) => table'.startat = table.startat
    /\ (pc = "handle" /\ ch \in {"j", "k", "g", "G"}) =>
          table'.column_startat = table.column_startat

(* C24 as stated: s, t, L and ? change only the mode, the row offset, the  *)
(* column offset, the page size and the predicate of the table stay as     *)
(* they were; h and l never change the row offset and j, k, g, G never     *)
(* change the column offset.                                               *)
C24_ModeSwitchFrame_Stated ==
    [][/\ (pc = "handle" /\ ch \in DOMAIN ModeOfKey) => table' = table
       /\ ScrollFrame]_vars

(* C24, amended: s, t, L and ? leave the row offset, the column offset and *)
(* the predicate as they were; s, L and ? leave the page size too, while   *)
(* the refresh of t renders the table and records the viewport height      *)
(* minus the reserved rows as page size; h and l never change the row      *)
(* offset and j, k, g, G never change the column offset.                   *)
C24_ModeSwitchFrame ==
    [][/\ (pc = "handle" /\ ch \in DOMAIN ModeOfKey) =>
             /\ table'.startat = table.startat
             /\ table'.column_startat = table.column_startat
             /\ table'.filter = table.filter
             /\ table'.last_page_size =
                   IF ch = "t" THEN console.h - ReservedRows
                   ELSE table.last_page_size
       /\ ScrollFrame]_vars

C24_Witness ==
    /\ pc = "read" /\ ch = "t" /\ handled.fn = "table_mode"
    /\ mode = "TABLE" /\ out.view = "table" /\ ~out.raised
    /\ table.startat > 0 /\ table.column_startat > 0
    /\ out.rows = <<table.startat>>

====
